---- MODULE Spec2Model ----
(***************************************************************************)
(* Model of main.py: the LiProfileScraper client of the Lobstr.io API and  *)
(* the CLIInterface workflow run_interactive_scrape.  Every HTTP request is *)
(* a pair of steps (the request is issued, the response is handled); the   *)
(* answers of the remote API, of the file system and of the user at the    *)
(* prompts are chosen nondeterministically.                                *)
(***************************************************************************)
EXTENDS Integers, Sequences, FiniteSets, TLC

\* ------------------------------------------------------------- bounds
MaxSquids == 2       \* longest squid list the API returns
MaxAccounts == 2     \* longest account list the API returns
MaxInputLen == 2     \* longest line typed at a prompt
MaxLines == 1        \* most lines of the URL file

\* ------------------------------------------------------------- constants
LINKEDIN_PROFILE_CRAWLER_ID == "5c11752d8687df2332c08247c4fb655a"
OTHER_CRAWLER == "other-crawler"
LINKEDIN_SYNC == "linkedin-sync"
OTHER_TYPE == "other-type"
LOG_FILE == "scraper.log"
CACHE_FILE_NAME == ".squid_id"
ENV_FILE == ".env"
JSON_FILE == "results_<timestamp>.json"
CSV_FILE == "results_<timestamp>.csv"
URL_LIST == "urls.txt"

\* dict.get('id') of a response without the key: None
NoId == 0

NoReq == [op |-> "none", target |-> NoId]

\* ------------------------------------------------------------- text typed at prompts
Digits == {"0", "1", "2", "3"}
InputChars == Digits \cup {"n", "y", "Y", " "}
Inputs == UNION {[1..n -> InputChars] : n \in 0..MaxInputLen}

DigitVal(c) == CASE c = "0" -> 0 [] c = "1" -> 1 [] c = "2" -> 2 [] c = "3" -> 3

RECURSIVE LStrip(_)
LStrip(s) == IF s # <<>> /\ Head(s) = " " THEN LStrip(Tail(s)) ELSE s

RECURSIVE RStrip(_)
RStrip(s) == IF s # <<>> /\ s[Len(s)] = " " THEN RStrip(SubSeq(s, 1, Len(s) - 1)) ELSE s

\* str.strip()
Strip(s) == RStrip(LStrip(s))

LowerChar(c) == CASE c = "N" -> "n" [] c = "Y" -> "y" [] OTHER -> c

\* str.lower()
Lower(s) == [i \in 1..Len(s) |-> LowerChar(s[i])]

RECURSIVE DigitsValue(_)
DigitsValue(s) == IF s = <<>> THEN 0 ELSE 10 * DigitsValue(SubSeq(s, 1, Len(s) - 1)) + DigitVal(s[Len(s)])

AllDigits(s) == s # <<>> /\ \A i \in 1..Len(s) : s[i] \in Digits

\* int(text): surrounding blanks dropped, an optional sign, then digits;
\* anything else raises ValueError (ok = FALSE)
ParseInt(s) ==
    LET t == Strip(s)
        neg == t # <<>> /\ Head(t) = "-"
        body == IF neg THEN Tail(t) ELSE t
    IN IF AllDigits(body)
       THEN [ok |-> TRUE, val |-> IF neg THEN 0 - DigitsValue(body) ELSE DigitsValue(body)]
       ELSE [ok |-> FALSE, val |-> 0]

\* ------------------------------------------------------------- remote data
SquidRec == [id : 0..MaxSquids, crawler : {LINKEDIN_PROFILE_CRAWLER_ID, OTHER_CRAWLER}]
AccountRec == [id : 1..MaxAccounts, type : {LINKEDIN_SYNC, OTHER_TYPE}]

\* the 'data' of GET /squids: the i-th squid has id i, or no id at all
SquidLists == UNION {{l \in [1..n -> SquidRec] : \A i \in 1..n : l[i].id \in {i, NoId}} : n \in 0..MaxSquids}

\* the 'data' of GET /accounts
AccountLists == UNION {{l \in [1..n -> AccountRec] : \A i \in 1..n : l[i].id = i} : n \in 0..MaxAccounts}

\* the id the API gives a squid created now
NewSquidId == MaxSquids + 1

\* the ids the API gives a run started now (disjoint from the squid ids)
RunIds == {NewSquidId + 1}

\* values of the is_done field of a stats response ("absent": no such key)
IsDoneVals == {"True", "False", "absent", "1"}

\* Python truth of stats.get('is_done')
Truthy(v) == v \in {"True", "1"}

IsLinkedinSquid(s) == s.crawler = LINKEDIN_PROFILE_CRAWLER_ID

IsLinkedinAccount(a) == a.type = LINKEDIN_SYNC

\* get_linkedin_squids: the squids of the LinkedIn profile crawler, in order
FilterSquids(all) == SelectSeq(all, IsLinkedinSquid)

FilterAccountsAll(all) == all

\* get_linkedin_accounts: the accounts of type linkedin-sync, in order
FilterAccounts(all) == SelectSeq(all, IsLinkedinAccount)

\* 0 <= selection_idx < len(items), with selection_idx = int(choice) - 1
ValidSelection(p, n) == p.ok /\ 0 <= p.val - 1 /\ p.val - 1 < n

\* items[selection_idx]
SelectedIndex(p) == (p.val - 1) + 1

\* [line.strip() for line in f if line.strip()], lines being blank or a URL
UrlsOf(lines) == SelectSeq(lines, LAMBDA l : l = "url")

FileLines == UNION {[1..n -> {"blank", "url"}] : n \in 0..MaxLines}

\* ------------------------------------------------------------- decisions of the code
\* TRUE when prompt_squid_selection creates a new squid for this input
NewSquid(squids, choice) == 
    LET c == Lower(Strip(choice))
    IN c = <<"n">> \/ ~ValidSelection(ParseInt(c), Len(squids))

SelectedSquidFirst(squids, choice) == squids[1].id

\* squids[selection_idx].get('id')
SelectedSquid(squids, choice) == squids[SelectedIndex(ParseInt(Lower(Strip(choice))))].id

\* prompt_account_selection: the input selects an account
AccountValid(accounts, choice) == ValidSelection(ParseInt(Strip(choice)), Len(accounts))

\* accounts[selection_idx].get('id')
SelectedAccount(accounts, choice) == accounts[SelectedIndex(ParseInt(Strip(choice)))].id

ShouldEmptyUnlessNo(confirm) == Lower(confirm) # <<"n">>

\* prompt_empty_squid: confirm = input().lower(); confirm == 'y'
ShouldEmpty(confirm) == Lower(confirm) = <<"y">>

\* step 4 of run_interactive_scrape: prompt to empty only when reusing
AfterUpdate(new) == IF ~new THEN "empty_prompt" ELSE "add_tasks"

\* steps 5-6: count == 0 returns, otherwise the run is started
AfterAddTasks(n) == IF n = 0 THEN "done" ELSE "run"

AfterRunStartedNoPoll == "fetch_results"

\* run_and_poll: after the run is started the stats loop is entered
AfterRunStarted == "poll"

PollOutcomeNeverDone(is_done) == "sleep"

PollOutcomeNotNone(is_done) == IF is_done # "absent" THEN "break" ELSE "sleep"

\* the loop body after the stats response: break when is_done, else sleep
PollOutcome(is_done) == IF Truthy(is_done) THEN "break" ELSE "sleep"

StatsTargetSquid(squid_hash, run_hash) == squid_hash

\* stats_url = f"{base_url}/runs/{run_hash}/stats"
StatsTarget(squid_hash, run_hash) == run_hash

OnRequestErrorRetryPoll(op) == IF op = "stats" THEN "sleep" ELSE "failed"

\* except RequestException: log and raise; run_interactive_scrape then logs and ends
OnRequestError(op) == "failed"

SavedJsonWithBackup == {JSON_FILE, "results.bak"}

\* the file save_to_json opens for writing
SavedJson == {JSON_FILE}

\* ------------------------------------------------------------- state
VARIABLES
    pc,           \* position of the workflow
    squids,       \* prompt_squid_selection: the LinkedIn squids listed
    accounts,     \* prompt_account_selection: the LinkedIn accounts listed
    choice,       \* the line read by the current prompt
    s_hash,       \* run_interactive_scrape: the squid of this invocation
    is_new,       \* run_interactive_scrape: the squid was created now
    account_id,   \* run_interactive_scrape: the account selected
    count,        \* run_interactive_scrape: the number of tasks added
    r_hash,       \* run_and_poll: the id of the run
    stats,        \* run_and_poll: is_done of the stats response at hand ("none": no response)
    doneSeen,     \* a stats response with is_done true was received for r_hash
    inflight,     \* the HTTP request waiting for its response
    log,          \* the operations issued, in order: [op, target, ok]
    err,          \* the exception that ended the workflow
    failedOp,     \* the operation whose HTTP request failed
    cache,        \* contents of the .squid_id file
    cachedArg,    \* the ids passed to _cache_squid_id
    filesRead,    \* files opened for reading
    filesWritten, \* files opened for writing
    tasks,        \* remote: tasks of the squid ("old": before this invocation)
    runAborted,   \* remote: the run was aborted
    nCreate,      \* POST /squids requests issued
    nRuns         \* POST /runs requests issued

vars == <<pc, squids, accounts, choice, s_hash, is_new, account_id, count,
          r_hash, stats, doneSeen, inflight, log, err, failedOp, cache, cachedArg, filesRead,
          filesWritten, tasks, runAborted, nCreate, nRuns>>

selVars == <<squids, accounts, choice, s_hash, is_new, account_id>>
runVars == <<count, r_hash, stats, doneSeen>>
fileVars == <<cache, cachedArg, filesRead, filesWritten>>
remoteVars == <<tasks, runAborted>>
reqVars == <<inflight, log, nCreate, nRuns>>
errVars == <<err, failedOp>>

PollLoop == {"poll", "poll_w", "poll_check", "sleep"}
Terminal == {"done", "failed", "exit"}

Min(a, b) == IF a < b THEN a ELSE b

\* the log with one more operation issued; successive stats polls share an entry
Issue(l, op, target) ==
    IF l # <<>> /\ l[Len(l)].op = "stats" /\ op = "stats" /\ l[Len(l)].target = target
    THEN [l EXCEPT ![Len(l)].ok = FALSE]
    ELSE Append(l, [op |-> op, target |-> target, ok |-> FALSE])

\* the log with its last operation returned successfully
MarkOk(l) == [l EXCEPT ![Len(l)].ok = TRUE]

\* requests.<method>(url, ...): the request goes out
Send(op, target) ==
    /\ inflight' = [op |-> op, target |-> target]
    /\ log' = Issue(log, op, target)

\* raise_for_status() passes
RecvOk ==
    /\ inflight' = NoReq
    /\ log' = MarkOk(log)

\* a RequestException: logged and raised out of the scraper method
RecvFail ==
    /\ inflight' = NoReq
    /\ log' = log
    /\ failedOp' = inflight.op
    /\ err' = "RequestException"
    /\ pc' = OnRequestError(inflight.op)

\* any other exception raised in run_interactive_scrape, caught by 'except Exception'
Raise(e) ==
    /\ err' = e
    /\ failedOp' = failedOp
    /\ pc' = "failed"

Init ==
    /\ pc = "list_squids"
    /\ squids = <<>>
    /\ accounts = <<>>
    /\ choice = <<>>
    /\ s_hash = NoId
    /\ is_new = FALSE
    /\ account_id = NoId
    /\ count = 0
    /\ r_hash = NoId
    /\ stats = "none"
    /\ doneSeen = FALSE
    /\ inflight = NoReq
    /\ log = <<>>
    /\ err = "none"
    /\ failedOp = "none"
    /\ cache = <<>>
    /\ cachedArg = {}
    /\ filesRead = {ENV_FILE}
    /\ filesWritten = {LOG_FILE}
    /\ tasks = {}
    /\ runAborted = FALSE
    /\ nCreate = 0
    /\ nRuns = 0

\* ------------------------------------------------------------- squid selection
\* list_squids: GET /squids
ListSquidsSend ==
    /\ pc = "list_squids"
    /\ Send("list_squids", NoId)
    /\ pc' = "list_squids_w"
    /\ UNCHANGED <<selVars, runVars, fileVars, remoteVars, errVars, nCreate, nRuns>>

\* get_linkedin_squids returns; an empty list goes straight to create_squid
ListSquidsOk ==
    /\ pc = "list_squids_w"
    /\ RecvOk
    /\ \E all \in SquidLists :
        /\ squids' = FilterSquids(all)
        /\ pc' = IF squids' = <<>> THEN "create_squid" ELSE "squid_prompt"
    /\ UNCHANGED <<accounts, choice, s_hash, is_new, account_id, runVars, fileVars,
                   remoteVars, errVars, nCreate, nRuns>>

ListSquidsFail ==
    /\ pc = "list_squids_w"
    /\ RecvFail
    /\ UNCHANGED <<selVars, runVars, fileVars, remoteVars, nCreate, nRuns>>

\* choice = input("Select a Squid (number) or 'N' for new: ")
SquidPromptInput ==
    /\ pc = "squid_prompt"
    /\ \E text \in Inputs : choice' = text
    /\ pc' = "squid_chosen"
    /\ UNCHANGED <<squids, accounts, s_hash, is_new, account_id, runVars, fileVars,
                   remoteVars, reqVars, errVars>>

\* _cache_squid_id(squid_id): open(..., 'w') and f.write; an IOError is only
\* logged, f.write(None) raises TypeError after the file was truncated.
\* how: "ok" or "open_fails"
CacheWrite(squid_id, how) ==
    /\ cachedArg' = cachedArg \cup {squid_id}
    /\ filesRead' = filesRead
    /\ IF how = "open_fails"
       THEN cache' = cache /\ filesWritten' = filesWritten
       ELSE /\ filesWritten' = filesWritten \cup {CACHE_FILE_NAME}
            /\ cache' = IF how = "ok" /\ squid_id # NoId THEN <<squid_id>> ELSE <<>>

\* the outcome of prompt_squid_selection once the id is cached: return or TypeError
SelectionReturn(squid_id, new, how) ==
    /\ squids' = <<>>
    /\ choice' = <<>>
    /\ IF squid_id = NoId /\ how # "open_fails"
       THEN /\ Raise("TypeError")
            /\ UNCHANGED <<s_hash, is_new, tasks>>
       ELSE /\ s_hash' = squid_id
            /\ is_new' = new
            /\ tasks' = IF new THEN {} ELSE {"old"}
            /\ pc' = "list_accounts"
            /\ UNCHANGED errVars

\* an existing squid is selected, cached and returned
SquidChooseExisting ==
    /\ pc = "squid_chosen"
    /\ ~NewSquid(squids, choice)
    /\ \E how \in {"ok", "open_fails"} :
        /\ CacheWrite(SelectedSquid(squids, choice), how)
        /\ SelectionReturn(SelectedSquid(squids, choice), FALSE, how)
    /\ UNCHANGED <<accounts, account_id, runVars, runAborted, reqVars>>

\* 'n', an out-of-range number or anything else: a new squid is created
SquidChooseNew ==
    /\ pc = "squid_chosen"
    /\ NewSquid(squids, choice)
    /\ pc' = "create_squid"
    /\ UNCHANGED <<selVars, runVars, fileVars, remoteVars, reqVars, errVars>>

\* create_squid: POST /squids
CreateSquidSend ==
    /\ pc = "create_squid"
    /\ Send("create_squid", NoId)
    /\ nCreate' = Min(nCreate + 1, 2)
    /\ pc' = "create_squid_w"
    /\ UNCHANGED <<selVars, runVars, fileVars, remoteVars, errVars, nRuns>>

\* create_squid returns response.json().get('id'); it is cached and returned
CreateSquidOk ==
    /\ pc = "create_squid_w"
    /\ RecvOk
    /\ \E new_id \in {NewSquidId, NoId}, how \in {"ok", "open_fails"} :
        /\ CacheWrite(new_id, how)
        /\ SelectionReturn(new_id, TRUE, how)
    /\ UNCHANGED <<accounts, account_id, runVars, runAborted, nCreate, nRuns>>

CreateSquidFail ==
    /\ pc = "create_squid_w"
    /\ RecvFail
    /\ UNCHANGED <<selVars, runVars, fileVars, remoteVars, nCreate, nRuns>>

\* ------------------------------------------------------------- account selection
\* list_accounts: GET /accounts
ListAccountsSend ==
    /\ pc = "list_accounts"
    /\ Send("list_accounts", NoId)
    /\ pc' = "list_accounts_w"
    /\ UNCHANGED <<selVars, runVars, fileVars, remoteVars, errVars, nCreate, nRuns>>

\* accounts = self.scraper.get_linkedin_accounts()
ListAccountsOk ==
    /\ pc = "list_accounts_w"
    /\ RecvOk
    /\ \E all \in AccountLists : accounts' = FilterAccounts(all)
    /\ pc' = "accounts_listed"
    /\ UNCHANGED <<squids, choice, s_hash, is_new, account_id, runVars, fileVars, remoteVars,
                   errVars, nCreate, nRuns>>

\* if not accounts: raise ValueError("No LinkedIn accounts available.")
AccountNone ==
    /\ pc = "accounts_listed"
    /\ accounts = <<>>
    /\ Raise("ValueError")
    /\ UNCHANGED <<selVars, runVars, fileVars, remoteVars, reqVars>>

\* if len(accounts) == 1: the only account is returned without a prompt
AccountAuto ==
    /\ pc = "accounts_listed"
    /\ Len(accounts) = 1
    /\ account_id' = accounts[1].id
    /\ accounts' = <<>>
    /\ pc' = "update_squid"
    /\ UNCHANGED <<squids, choice, s_hash, is_new, runVars, fileVars, remoteVars, reqVars,
                   errVars>>

\* several accounts: they are printed and the prompt loop is entered
AccountShow ==
    /\ pc = "accounts_listed"
    /\ Len(accounts) > 1
    /\ pc' = "account_prompt"
    /\ UNCHANGED <<selVars, runVars, fileVars, remoteVars, reqVars, errVars>>

ListAccountsFail ==
    /\ pc = "list_accounts_w"
    /\ RecvFail
    /\ UNCHANGED <<selVars, runVars, fileVars, remoteVars, nCreate, nRuns>>

\* choice = input("Select an Account (number): ")
AccountPromptInput ==
    /\ pc = "account_prompt"
    /\ \E text \in Inputs : choice' = text
    /\ pc' = "account_chosen"
    /\ UNCHANGED <<squids, accounts, s_hash, is_new, account_id, runVars, fileVars,
                   remoteVars, reqVars, errVars>>

\* a valid number returns the account
AccountChoose ==
    /\ pc = "account_chosen"
    /\ AccountValid(accounts, choice)
    /\ account_id' = SelectedAccount(accounts, choice)
    /\ accounts' = <<>>
    /\ choice' = <<>>
    /\ pc' = "update_squid"
    /\ UNCHANGED <<squids, s_hash, is_new, runVars, fileVars, remoteVars, reqVars,
                   errVars>>

\* "Invalid selection" / "Invalid input": the while loop prompts again
AccountRetry ==
    /\ pc = "account_chosen"
    /\ ~AccountValid(accounts, choice)
    /\ choice' = <<>>
    /\ pc' = "account_prompt"
    /\ UNCHANGED <<squids, accounts, s_hash, is_new, account_id, runVars, fileVars,
                   remoteVars, reqVars, errVars>>

\* ------------------------------------------------------------- update, empty, add tasks
\* update_squid: POST /squids/<squid_hash> with the account
UpdateSquidSend ==
    /\ pc = "update_squid"
    /\ Send("update_squid", s_hash)
    /\ pc' = "update_squid_w"
    /\ UNCHANGED <<selVars, runVars, fileVars, remoteVars, errVars, nCreate, nRuns>>

UpdateSquidOk ==
    /\ pc = "update_squid_w"
    /\ RecvOk
    /\ pc' = AfterUpdate(is_new)
    /\ UNCHANGED <<selVars, runVars, fileVars, remoteVars, errVars, nCreate, nRuns>>

UpdateSquidFail ==
    /\ pc = "update_squid_w"
    /\ RecvFail
    /\ UNCHANGED <<selVars, runVars, fileVars, remoteVars, nCreate, nRuns>>

\* confirm = input("Empty existing tasks from this Squid? (y/N): ").lower()
EmptyPromptInput ==
    /\ pc = "empty_prompt"
    /\ \E text \in Inputs : choice' = text
    /\ pc' = "empty_chosen"
    /\ UNCHANGED <<squids, accounts, s_hash, is_new, account_id, runVars, fileVars,
                   remoteVars, reqVars, errVars>>

\* if confirm == 'y': empty_squid, POST /squids/<squid_hash>/empty
EmptySquidSend ==
    /\ pc = "empty_chosen"
    /\ ShouldEmpty(choice)
    /\ Send("empty_squid", s_hash)
    /\ choice' = <<>>
    /\ pc' = "empty_squid_w"
    /\ UNCHANGED <<squids, accounts, s_hash, is_new, account_id, runVars, fileVars,
                   remoteVars, errVars, nCreate, nRuns>>

\* any other answer: prompt_empty_squid returns without a request
EmptySkip ==
    /\ pc = "empty_chosen"
    /\ ~ShouldEmpty(choice)
    /\ choice' = <<>>
    /\ pc' = "add_tasks"
    /\ UNCHANGED <<squids, accounts, s_hash, is_new, account_id, runVars, fileVars,
                   remoteVars, reqVars, errVars>>

\* the squid is emptied of all its URLs
EmptySquidOk ==
    /\ pc = "empty_squid_w"
    /\ RecvOk
    /\ tasks' = {}
    /\ pc' = "add_tasks"
    /\ UNCHANGED <<selVars, runVars, fileVars, runAborted, errVars, nCreate, nRuns>>

EmptySquidFail ==
    /\ pc = "empty_squid_w"
    /\ RecvFail
    /\ UNCHANGED <<selVars, runVars, fileVars, remoteVars, nCreate, nRuns>>

\* add_tasks with is_file: the file does not exist
AddTasksFileMissing ==
    /\ pc = "add_tasks"
    /\ Raise("FileNotFoundError")
    /\ UNCHANGED <<selVars, runVars, fileVars, remoteVars, reqVars>>

\* add_tasks with is_file: open() or the read raises IOError
AddTasksFileError ==
    /\ pc = "add_tasks"
    /\ Raise("IOError")
    /\ filesRead' = filesRead \cup {URL_LIST}
    /\ UNCHANGED <<selVars, runVars, cache, cachedArg, filesWritten, remoteVars,
                   reqVars>>

\* the URLs are collected; none returns 0 ("Nothing to process"), otherwise
\* POST /tasks
AddTasksCollected(urls) ==
    IF urls = <<>>
    THEN /\ count' = 0
         /\ pc' = AfterAddTasks(0)
         /\ UNCHANGED reqVars
    ELSE /\ count' = Len(urls)
         /\ Send("add_tasks", s_hash)
         /\ pc' = "add_tasks_w"
         /\ UNCHANGED <<nCreate, nRuns>>

\* add_tasks with is_file: the lines of the file are read
AddTasksFromFile ==
    /\ pc = "add_tasks"
    /\ filesRead' = filesRead \cup {URL_LIST}
    /\ \E lines \in FileLines : AddTasksCollected(UrlsOf(lines))
    /\ UNCHANGED <<selVars, r_hash, stats, doneSeen, cache, cachedArg, filesWritten,
                   remoteVars, errVars>>

\* add_tasks with a single URL (--url): input_source.strip(), blank or not
AddTasksFromUrl ==
    /\ pc = "add_tasks"
    /\ \E input_source \in {"blank", "url"} : AddTasksCollected(UrlsOf(<<input_source>>))
    /\ UNCHANGED <<selVars, r_hash, stats, doneSeen, fileVars, remoteVars, errVars>>

\* the tasks are added; count is not 0, so the run follows
AddTasksOk ==
    /\ pc = "add_tasks_w"
    /\ RecvOk
    /\ tasks' = tasks \cup {"new"}
    /\ pc' = AfterAddTasks(count)
    /\ UNCHANGED <<selVars, runVars, fileVars, runAborted, errVars, nCreate, nRuns>>

AddTasksFail ==
    /\ pc = "add_tasks_w"
    /\ RecvFail
    /\ UNCHANGED <<selVars, runVars, fileVars, remoteVars, nCreate, nRuns>>

\* ------------------------------------------------------------- run_and_poll
\* POST /runs
RunSend ==
    /\ pc = "run"
    /\ Send("run", s_hash)
    /\ nRuns' = Min(nRuns + 1, 2)
    /\ pc' = "run_w"
    /\ UNCHANGED <<selVars, runVars, fileVars, remoteVars, errVars, nCreate>>

\* run_hash = response.json().get('id')
RunOk ==
    /\ pc = "run_w"
    /\ RecvOk
    /\ \E id \in RunIds \cup {NoId} : r_hash' = id
    /\ pc' = AfterRunStarted
    /\ UNCHANGED <<selVars, count, stats, doneSeen, fileVars, remoteVars, errVars,
                   nCreate, nRuns>>

RunFail ==
    /\ pc = "run_w"
    /\ RecvFail
    /\ UNCHANGED <<selVars, runVars, fileVars, remoteVars, nCreate, nRuns>>

\* res = requests.get(stats_url)
PollSend ==
    /\ pc = "poll"
    /\ Send("stats", StatsTarget(s_hash, r_hash))
    /\ pc' = "poll_w"
    /\ UNCHANGED <<selVars, count, r_hash, stats, doneSeen, fileVars, remoteVars, errVars,
                   nCreate, nRuns>>

\* stats = res.json()
PollOk ==
    /\ pc = "poll_w"
    /\ RecvOk
    /\ \E v \in IsDoneVals :
        /\ stats' = v
        /\ doneSeen' = (doneSeen \/ (inflight.target = r_hash /\ v \in {"True", "1"}))
    /\ pc' = "poll_check"
    /\ UNCHANGED <<selVars, count, r_hash, fileVars, remoteVars, errVars,
                   nCreate, nRuns>>

\* a failed poll is not caught by the inner try: it leaves run_and_poll
PollFail ==
    /\ pc = "poll_w"
    /\ RecvFail
    /\ UNCHANGED <<selVars, runVars, fileVars, remoteVars, nCreate, nRuns>>

\* if stats.get('is_done'): break, and run_and_poll returns run_hash
PollDone ==
    /\ pc = "poll_check"
    /\ PollOutcome(stats) = "break"
    /\ stats' = "none"
    /\ pc' = "fetch_results"
    /\ UNCHANGED <<selVars, count, r_hash, doneSeen, fileVars, remoteVars, reqVars, errVars>>

\* otherwise time.sleep(DEFAULT_POLL_INTERVAL) is entered
PollNotDone ==
    /\ pc = "poll_check"
    /\ PollOutcome(stats) = "sleep"
    /\ pc' = "sleep"
    /\ UNCHANGED <<selVars, runVars, fileVars, remoteVars, reqVars, errVars>>

\* the sleep ends and the loop polls again
SleepEnds ==
    /\ pc = "sleep"
    /\ pc' = "poll"
    /\ UNCHANGED <<selVars, runVars, fileVars, remoteVars, reqVars, errVars>>

\* KeyboardInterrupt inside the loop's try: the request under way is dropped
\* and the user is asked whether to abort the run
InterruptInLoop ==
    /\ pc \in PollLoop
    /\ inflight' = NoReq
    /\ pc' = "abort_prompt"
    /\ UNCHANGED <<selVars, runVars, fileVars, remoteVars, log, nCreate, nRuns,
                   errVars>>

\* choice == 'y': abort_run, POST /runs/<run_hash>/abort
AbortSend ==
    /\ pc = "abort_prompt"
    /\ {text \in Inputs : Lower(Strip(text)) = <<"y">>} # {}
    /\ Send("abort", r_hash)
    /\ pc' = "abort_w"
    /\ UNCHANGED <<selVars, runVars, fileVars, remoteVars, errVars, nCreate, nRuns>>

\* any other answer: the KeyboardInterrupt is re-raised and main exits
AbortSkip ==
    /\ pc = "abort_prompt"
    /\ {text \in Inputs : Lower(Strip(text)) # <<"y">>} # {}
    /\ err' = "KeyboardInterrupt"
    /\ pc' = "exit"
    /\ UNCHANGED <<selVars, runVars, fileVars, remoteVars, reqVars, failedOp>>

\* the run is aborted, then the KeyboardInterrupt is re-raised
AbortOk ==
    /\ pc = "abort_w"
    /\ RecvOk
    /\ runAborted' = TRUE
    /\ err' = "KeyboardInterrupt"
    /\ pc' = "exit"
    /\ UNCHANGED <<selVars, runVars, fileVars, tasks, failedOp, nCreate, nRuns>>

AbortFail ==
    /\ pc = "abort_w"
    /\ RecvFail
    /\ UNCHANGED <<selVars, runVars, fileVars, remoteVars, nCreate, nRuns>>

\* KeyboardInterrupt anywhere else: not an Exception, main logs it and exits
InterruptElsewhere ==
    /\ pc \notin PollLoop \cup Terminal
    /\ inflight' = NoReq
    /\ err' = "KeyboardInterrupt"
    /\ pc' = "exit"
    /\ UNCHANGED <<selVars, runVars, fileVars, remoteVars, log, nCreate, nRuns,
                   failedOp>>

\* ------------------------------------------------------------- results
\* fetch_results: GET /results?run=<run_hash>
FetchSend ==
    /\ pc = "fetch_results"
    /\ Send("fetch_results", r_hash)
    /\ pc' = "fetch_results_w"
    /\ UNCHANGED <<selVars, runVars, fileVars, remoteVars, errVars, nCreate, nRuns>>

FetchOk ==
    /\ pc = "fetch_results_w"
    /\ RecvOk
    /\ pc' = "save_to_json"
    /\ UNCHANGED <<selVars, runVars, fileVars, remoteVars, errVars, nCreate, nRuns>>

FetchFail ==
    /\ pc = "fetch_results_w"
    /\ RecvFail
    /\ UNCHANGED <<selVars, runVars, fileVars, remoteVars, nCreate, nRuns>>

\* save_to_json: the results are written to results_<timestamp>.json
SaveJsonOk ==
    /\ pc = "save_to_json"
    /\ log' = MarkOk(Issue(log, "save_to_json", NoId))
    /\ filesWritten' = filesWritten \cup SavedJson
    /\ pc' = "download_csv"
    /\ UNCHANGED <<selVars, runVars, cache, cachedArg, filesRead, remoteVars,
                   inflight, nCreate, nRuns, errVars>>

\* save_to_json: open() or the dump raises IOError, which is logged and raised
SaveJsonFail ==
    /\ pc = "save_to_json"
    /\ log' = Issue(log, "save_to_json", NoId)
    /\ \E opened \in BOOLEAN :
        filesWritten' = IF opened THEN filesWritten \cup SavedJson ELSE filesWritten
    /\ Raise("IOError")
    /\ UNCHANGED <<selVars, runVars, cache, cachedArg, filesRead, remoteVars,
                   inflight, nCreate, nRuns>>

\* download_csv: GET /runs/<run_hash>/download
CsvSend ==
    /\ pc = "download_csv"
    /\ Send("download_csv", r_hash)
    /\ pc' = "download_csv_w"
    /\ UNCHANGED <<selVars, runVars, fileVars, remoteVars, errVars, nCreate, nRuns>>

\* no 's3' in the response: logged, download_csv returns without a file
CsvNoUrl ==
    /\ pc = "download_csv_w"
    /\ RecvOk
    /\ pc' = "done"
    /\ UNCHANGED <<selVars, runVars, fileVars, remoteVars, errVars, nCreate, nRuns>>

\* an 's3' URL: after CSV_GENERATION_WAIT seconds the file is requested
CsvUrl ==
    /\ pc = "download_csv_w"
    /\ inflight' = NoReq
    /\ log' = log
    /\ pc' = "s3_get"
    /\ UNCHANGED <<selVars, runVars, fileVars, remoteVars, errVars, nCreate, nRuns>>

CsvFail ==
    /\ pc = "download_csv_w"
    /\ RecvFail
    /\ UNCHANGED <<selVars, runVars, fileVars, remoteVars, nCreate, nRuns>>

\* csv_response = requests.get(s3_url)
S3Send ==
    /\ pc = "s3_get"
    /\ inflight' = [op |-> "s3_get", target |-> r_hash]
    /\ log' = log
    /\ pc' = "s3_get_w"
    /\ UNCHANGED <<selVars, runVars, fileVars, remoteVars, errVars, nCreate, nRuns>>

\* the content is written to results_<timestamp>.csv
S3Ok ==
    /\ pc = "s3_get_w"
    /\ RecvOk
    /\ filesWritten' = filesWritten \cup {CSV_FILE}
    /\ pc' = "done"
    /\ UNCHANGED <<selVars, runVars, cache, cachedArg, filesRead, remoteVars, errVars,
                   nCreate, nRuns>>

\* the content arrives but open() or the write raises IOError
S3WriteFail ==
    /\ pc = "s3_get_w"
    /\ inflight' = NoReq
    /\ log' = log
    /\ \E opened \in BOOLEAN :
        filesWritten' = IF opened THEN filesWritten \cup {CSV_FILE} ELSE filesWritten
    /\ Raise("IOError")
    /\ UNCHANGED <<selVars, runVars, cache, cachedArg, filesRead, remoteVars,
                   nCreate, nRuns>>

S3Fail ==
    /\ pc = "s3_get_w"
    /\ RecvFail
    /\ UNCHANGED <<selVars, runVars, fileVars, remoteVars, nCreate, nRuns>>

\* ------------------------------------------------------------- specification
Next ==
    \/ ListSquidsSend \/ ListSquidsOk \/ ListSquidsFail
    \/ SquidPromptInput \/ SquidChooseExisting \/ SquidChooseNew
    \/ CreateSquidSend \/ CreateSquidOk \/ CreateSquidFail
    \/ ListAccountsSend \/ ListAccountsOk \/ ListAccountsFail
    \/ AccountNone \/ AccountAuto \/ AccountShow
    \/ AccountPromptInput \/ AccountChoose \/ AccountRetry
    \/ UpdateSquidSend \/ UpdateSquidOk \/ UpdateSquidFail
    \/ EmptyPromptInput \/ EmptySquidSend \/ EmptySkip \/ EmptySquidOk \/ EmptySquidFail
    \/ AddTasksFileMissing \/ AddTasksFileError \/ AddTasksFromFile \/ AddTasksFromUrl
    \/ AddTasksOk \/ AddTasksFail
    \/ RunSend \/ RunOk \/ RunFail
    \/ PollSend \/ PollOk \/ PollFail \/ PollDone \/ PollNotDone \/ SleepEnds
    \/ InterruptInLoop \/ AbortSend \/ AbortSkip \/ AbortOk \/ AbortFail
    \/ InterruptElsewhere
    \/ FetchSend \/ FetchOk \/ FetchFail
    \/ SaveJsonOk \/ SaveJsonFail
    \/ CsvSend \/ CsvNoUrl \/ CsvUrl \/ CsvFail
    \/ S3Send \/ S3Ok \/ S3WriteFail \/ S3Fail

Spec == Init /\ [][Next]_vars

\* the interpreter goes on executing the loop body: a response at hand is
\* examined, the sleep of DEFAULT_POLL_INTERVAL seconds ends, the next request
\* is sent
FairSpec ==
    /\ Init /\ [][Next]_vars
    /\ WF_vars(PollDone) /\ WF_vars(PollNotDone) /\ WF_vars(SleepEnds) /\ WF_vars(PollSend)

\* ------------------------------------------------------------- properties
LogOps == {log[i].op : i \in DOMAIN log}

Issued(op) == op \in LogOps

\* Issued(op) and its call returned successfully
Returned(op) == \E i \in DOMAIN log : log[i].op = op /\ log[i].ok

\* the order of the workflow's operations
Rank(op) ==
    CASE op = "list_squids" -> 1 [] op = "create_squid" -> 2 [] op = "list_accounts" -> 3
      [] op = "update_squid" -> 4 [] op = "empty_squid" -> 5 [] op = "add_tasks" -> 6
      [] op = "run" -> 7 [] op = "stats" -> 8 [] op = "fetch_results" -> 9
      [] op = "save_to_json" -> 10 [] op = "download_csv" -> 11 [] OTHER -> 12

RunOps == {"stats", "abort", "fetch_results", "download_csv"}
SquidOps == {"update_squid", "empty_squid", "add_tasks", "run"}
IsDoneTrue == {"True", "1"}

\* C1: in every execution that reaches the CSV export the operations were
\* issued in the order list/create squid, list accounts, update_squid,
\* (empty_squid), add_tasks, run, stats, fetch_results, save_to_json,
\* download_csv, each after the one before it had returned successfully, none
\* left out but the optional ones, and none repeated.
C1_OrderOfOperations ==
    Issued("download_csv") =>
        /\ \A i, j \in DOMAIN log : i < j => Rank(log[i].op) < Rank(log[j].op)
        /\ \A i \in DOMAIN log : i < Len(log) => log[i].ok
        /\ {"list_squids", "list_accounts", "update_squid", "add_tasks", "run", "stats",
            "fetch_results", "save_to_json"} \subseteq LogOps
        /\ log[1].op = "list_squids"
        /\ log[Len(log)].op = "download_csv"

C1_Witness ==
    /\ pc = "done"
    /\ CSV_FILE \in filesWritten
    /\ Issued("empty_squid")
    /\ log[Len(log)].ok

\* C2: run_and_poll returns only from a stats response of its run with a true
\* is_done; the results are never fetched, saved or downloaded before such a
\* response was seen; a response that is not done (or has no is_done) goes to
\* the sleep and from the sleep to the next poll (or to the interrupt handler),
\* never to a return.
C2_ReturnOnlyWhenDone ==
    /\ []((pc \in {"fetch_results", "fetch_results_w", "save_to_json", "download_csv",
                   "download_csv_w", "s3_get", "s3_get_w"}
           \/ Issued("fetch_results") \/ Issued("save_to_json") \/ Issued("download_csv")
           \/ JSON_FILE \in filesWritten \/ CSV_FILE \in filesWritten) => doneSeen)
    /\ [][/\ (pc \in PollLoop /\ pc' = "fetch_results") =>
                (pc = "poll_check" /\ stats \in IsDoneTrue /\ log[Len(log)].target = r_hash)
          /\ (pc = "poll_check" /\ stats \notin IsDoneTrue) => pc' \in {"sleep", "abort_prompt"}
          /\ (pc = "sleep") => pc' \in {"poll", "abort_prompt"}]_vars

C2_Witness ==
    /\ pc = "poll_w"
    /\ stats = "absent"
    /\ inflight.op = "stats"

\* C3: a failed HTTP request is not retried, its error leaves the scraper
\* method, and nothing more is issued or written: the workflow is over with the
\* failed operation as its last one; after a failed stats poll no results were
\* fetched or written and the run was not aborted.
C3_NoRecovery ==
    /\ [](failedOp # "none" =>
            /\ pc = "failed"
            /\ err = "RequestException"
            /\ inflight = NoReq
            /\ log[Len(log)].op = (IF failedOp = "s3_get" THEN "download_csv" ELSE failedOp)
            /\ ~log[Len(log)].ok
            /\ (failedOp = "stats" =>
                    /\ ~Issued("fetch_results") /\ ~Issued("save_to_json")
                    /\ ~Issued("download_csv") /\ ~Issued("abort")
                    /\ JSON_FILE \notin filesWritten /\ CSV_FILE \notin filesWritten
                    /\ ~runAborted))
    /\ [][failedOp # "none" => UNCHANGED vars]_vars

C3_Witness ==
    /\ failedOp = "stats"
    /\ pc = "failed"
    /\ stats = "False"

\* C4 as stated: only the URL list is read, only the JSON and CSV result files
\* are written.
C4_OnlyUrlsJsonCsv ==
    /\ filesRead \subseteq {URL_LIST}
    /\ filesWritten \subseteq {JSON_FILE, CSV_FILE}

\* C4 amended: the files read are the URL list and .env; the files written are
\* the JSON and CSV result files, the .squid_id cache (by the squid selection
\* only) and scraper.log; the JSON file is written only after fetch_results
\* returned and the CSV file only after the download request.
C4_FilesTouched ==
    /\ filesRead \subseteq {URL_LIST, ENV_FILE}
    /\ filesWritten \subseteq {JSON_FILE, CSV_FILE, CACHE_FILE_NAME, LOG_FILE}
    /\ (CACHE_FILE_NAME \in filesWritten => cachedArg # {})
    /\ (URL_LIST \in filesRead => Returned("update_squid"))
    /\ (JSON_FILE \in filesWritten => Returned("fetch_results"))
    /\ (CSV_FILE \in filesWritten => Returned("save_to_json") /\ Issued("download_csv"))

C4_Witness ==
    /\ pc = "done"
    /\ filesWritten = {JSON_FILE, CSV_FILE, CACHE_FILE_NAME, LOG_FILE}
    /\ URL_LIST \in filesRead

\* C5: at most one squid is created and one run started; every stats poll,
\* abort, result fetch and CSV download targets the run started, every update,
\* empty, add-tasks and run targets the squid the selection returned; the two
\* ids are set once; a request is issued only when none is outstanding.
C5_SingleJobSequential ==
    /\ [](/\ nCreate <= 1 /\ nRuns <= 1
          /\ \A i, j \in DOMAIN log :
                (log[i].op = log[j].op /\ log[i].op \in {"create_squid", "run"}) => i = j
          /\ \A i \in DOMAIN log :
                /\ log[i].op \in RunOps => log[i].target = r_hash
                /\ log[i].op \in SquidOps => log[i].target = s_hash
          /\ inflight.op \in RunOps => inflight.target = r_hash
          /\ inflight.op \in SquidOps => inflight.target = s_hash)
    /\ [][/\ (inflight' # inflight /\ inflight' # NoReq) => inflight = NoReq
          /\ s_hash' # s_hash => (pc \in {"squid_chosen", "create_squid_w"} /\ ~Issued("update_squid"))
          /\ r_hash' # r_hash => (pc = "run_w" /\ ~Issued("stats"))]_vars

C5_Witness ==
    /\ runAborted
    /\ nCreate = 1
    /\ nRuns = 1
    /\ r_hash # NoId

LoopExit ==
    (pc \in PollLoop /\ pc' \notin PollLoop) =>
        \/ pc = "poll_check" /\ stats \in IsDoneTrue /\ pc' = "fetch_results"
        \/ pc = "poll_w" /\ pc' = "failed" /\ failedOp' = "stats" /\ err' = "RequestException"
        \/ pc' = "abort_prompt"

\* C6: once a stats response with a true is_done is at hand, run_and_poll
\* returns (unless the user interrupts); a response that is not done is always
\* followed by another stats request (unless the user interrupts), however
\* many came before; and the loop is left in no other way than that return, a
\* failed poll or an interrupt.
C6_PollTermination ==
    /\ (pc = "poll_check" /\ stats \in IsDoneTrue) ~> (pc \in {"fetch_results", "abort_prompt"})
    /\ (pc = "poll_check" /\ stats \notin IsDoneTrue) ~>
            ((pc = "poll_w" /\ inflight.op = "stats") \/ pc = "abort_prompt")
    /\ [][LoopExit]_vars

C6_Witness ==
    /\ pc = "fetch_results"
    /\ doneSeen
    /\ r_hash \in RunIds

\* the input is an integer between 1 and n
NumberIn(text, n) == ParseInt(text).ok /\ ParseInt(text).val \in 1..n

SelectionReturns == pc \in {"squid_chosen", "create_squid_w"} /\ pc' = "list_accounts"

\* C7: prompt_squid_selection returns is_new true exactly when create_squid
\* was called; an existing squid is returned only for a non-empty list and an
\* integer between 1 and its length, and is the entry at that position; any
\* other input, and an empty list, goes to create_squid once, without another
\* prompt; the id passed to the cache (and the id in the cache file, when the
\* write went through) is the id returned.
C7_SquidSelection ==
    /\ [](nCreate <= 1 /\ (pc = "squid_prompt" => squids # <<>>))
    /\ [][/\ SelectionReturns =>
                /\ is_new' = (nCreate = 1)
                /\ is_new' = (pc = "create_squid_w")
                /\ ~is_new' => /\ squids # <<>>
                               /\ NumberIn(choice, Len(squids))
                               /\ s_hash' = squids[ParseInt(choice).val].id
                /\ cachedArg' = {s_hash'}
                /\ cache' \in {<<>>, <<s_hash'>>}
                /\ (cache' # cache => cache' = <<s_hash'>>)
          /\ (pc = "squid_chosen" /\ ~NumberIn(choice, Len(squids))) =>
                (pc' \in {"create_squid", "exit"} /\ nCreate = 0)
          /\ (pc = "list_squids_w" /\ pc' \notin {"failed", "exit"}) =>
                (pc' = IF squids' = <<>> THEN "create_squid" ELSE "squid_prompt")
          /\ (pc = "create_squid") => pc' \in {"create_squid_w", "exit"}
          /\ pc' = "squid_prompt" => pc = "list_squids_w"]_vars

C7_Witness ==
    /\ pc = "list_accounts"
    /\ ~is_new
    /\ s_hash = 2
    /\ cache = <<2>>
    /\ nCreate = 0

\* C8: empty_squid is issued only for a reused squid, after update_squid
\* returned and before add_tasks; at the prompt it is issued exactly when the
\* answer is 'y' (in either case); a created squid is never prompted for; the
\* tasks added in this invocation are never removed.
C8_EmptyOnlyReusedConfirmed ==
    /\ []((Issued("empty_squid") \/ pc \in {"empty_prompt", "empty_chosen", "empty_squid_w"}) =>
            (~is_new /\ Returned("update_squid")))
    /\ []((pc \in {"empty_prompt", "empty_chosen", "empty_squid_w"}) => ~Issued("add_tasks"))
    /\ [](\A i, j \in DOMAIN log :
            (log[i].op = "empty_squid" /\ log[j].op = "add_tasks") => i < j)
    /\ [][/\ (pc = "empty_chosen" /\ pc' # "exit") =>
                ((pc' = "empty_squid_w" /\ inflight'.op = "empty_squid")
                    <=> choice \in {<<"y">>, <<"Y">>})
          /\ (pc = "empty_chosen" /\ pc' \notin {"exit", "empty_squid_w"}) => pc' = "add_tasks"
          /\ (inflight'.op = "empty_squid" /\ inflight.op # "empty_squid") => pc = "empty_chosen"
          /\ (pc = "update_squid_w" /\ pc' = "empty_prompt") => ~is_new
          /\ (pc = "update_squid_w" /\ pc' = "add_tasks") => is_new
          /\ ("new" \in tasks => "new" \in tasks')]_vars

C8_Witness ==
    /\ ~is_new
    /\ tasks = {"new"}
    /\ Returned("empty_squid")
    /\ Returned("add_tasks")

AccountReturns == pc \in {"accounts_listed", "account_chosen"} /\ pc' = "update_squid"

\* C9: prompt_account_selection returns only the id of a listed account of
\* type linkedin-sync; with none it raises ValueError and neither update_squid
\* nor add_tasks nor a run follows; with one it returns it without a prompt;
\* with several it returns the entry an integer between 1 and their number
\* names, and prompts again after any other input.
C9_AccountSelection ==
    /\ [](err = "ValueError" =>
            /\ pc = "failed"
            /\ ~Issued("update_squid") /\ ~Issued("empty_squid") /\ ~Issued("add_tasks")
            /\ ~Issued("run") /\ nRuns = 0)
    /\ [](pc \in {"account_prompt", "account_chosen"} => Len(accounts) > 1)
    /\ [](\A i \in DOMAIN accounts : accounts[i].type = LINKEDIN_SYNC)
    /\ [][/\ AccountReturns =>
                \E k \in DOMAIN accounts :
                    /\ accounts[k].type = LINKEDIN_SYNC
                    /\ account_id' = accounts[k].id
                    /\ (pc = "accounts_listed" => (Len(accounts) = 1 /\ k = 1))
                    /\ (pc = "account_chosen" =>
                            (NumberIn(choice, Len(accounts)) /\ k = ParseInt(choice).val))
          /\ (pc = "accounts_listed" /\ accounts = <<>>) =>
                ((pc' = "failed" /\ err' = "ValueError") \/ pc' = "exit")
          /\ (pc = "accounts_listed" /\ Len(accounts) = 1) => pc' \in {"update_squid", "exit"}
          /\ (pc = "account_chosen" /\ ~NumberIn(choice, Len(accounts))) =>
                pc' \in {"account_prompt", "exit"}
          /\ (pc = "account_chosen" /\ NumberIn(choice, Len(accounts))) =>
                pc' \in {"update_squid", "exit"}
          /\ account_id' # account_id => AccountReturns]_vars

C9_Witness ==
    /\ err = "ValueError"
    /\ nCreate = 1
    /\ CACHE_FILE_NAME \in filesWritten
    /\ pc = "failed"

====
